---- MODULE Spec2Model ----
(***************************************************************************)
(* The virtual gate crossing notebook of spark-esri (micro_path.ipynb):    *)
(* position reports (view v0) are paired into micropaths by a lead()       *)
(* window (v1), filtered on t1 < t2 (v2), enriched with distance (v3) and  *)
(* speed (v4), cleaned of noise (df1), joined against the broadcast gates  *)
(* by func (df2 / v5) and counted per gate and travel direction (rows).    *)
(*                                                                         *)
(* Tables are sequences of records: a sequence keeps the multiplicity of   *)
(* equal rows, as a SQL table does.  Coordinates are integers (metres).    *)
(* A square root is kept exactly, by its radicand.                         *)
(***************************************************************************)
EXTENDS Integers, Sequences, FiniteSets

VARIABLES pc, bv, v0, v1, v2, v3, v4, df1, df2, rows, parts, outs

vars == <<pc, bv, v0, v1, v2, v3, v4, df1, df2, rows, parts, outs>>

(***************************************************************************)
(* Bounds of the model.                                                    *)
(***************************************************************************)
MaxReports == 3
MaxNoiseReports == 2
MaxGates == 2

(***************************************************************************)
(* Generic helpers.                                                        *)
(***************************************************************************)
Range(s) == {s[i] : i \in DOMAIN s}

Abs(n) == IF n < 0 THEN -n ELSE n

Min2(a, b) == IF a <= b THEN a ELSE b

Max2(a, b) == IF a <= b THEN b ELSE a

RECURSIVE GCD(_, _)
GCD(a, b) == IF b = 0 THEN a ELSE GCD(b, a % b)

RECURSIVE SumSeq(_)
SumSeq(s) == IF s = <<>> THEN 0 ELSE Head(s) + SumSeq(Tail(s))

RECURSIVE FlattenSeq(_)
FlattenSeq(ss) == IF ss = <<>> THEN <<>> ELSE Head(ss) \o FlattenSeq(Tail(ss))

(***************************************************************************)
(* Input domains.  Entities are listed in the order of their mmsi strings. *)
(***************************************************************************)
Entities == <<"A", "B">>

EntIdx(e) == CHOOSE i \in DOMAIN Entities : Entities[i] = e

Report(e, x, y, t) == [mmsi |-> e, x |-> x, y |-> y, t |-> t]

\* A total order on reports, used only to list a multiset of reports once.
ReportKey(r) == <<EntIdx(r.mmsi), r.t, r.x, r.y>>

RECURSIVE LexLE(_, _)
LexLE(a, b) ==
  IF a = <<>> THEN TRUE
  ELSE IF Head(a) # Head(b) THEN Head(a) < Head(b)
  ELSE LexLE(Tail(a), Tail(b))

\* The multisets of at most n reports drawn from R, each as one sequence.
Multisets(R, n) ==
  {s \in UNION {[1..k -> R] : k \in 0..n} :
     \A i \in 1..(Len(s) - 1) : LexLE(ReportKey(s[i]), ReportKey(s[i + 1]))}

\* Reports for the segmentation: negative, zero and equal timestamps.
ReportsSeg ==
  {Report("A", x, 0, t) : x \in {0, 10, 20}, t \in {-1, 0, 10, 1000}}
    \cup {Report("B", x, 0, t) : x \in {0, 10}, t \in {0, 10}}

\* Reports that put a micropath on each threshold of the noise filter.
ReportsNoise ==
  {Report("A", x, 0, t) : x \in {0, 1, 250, 1500, 1501}, t \in {0, 10, 129, 130}}

\* Reports for the gate join: entity A travels between two corners of a
\* square, along an axis or a diagonal; entity B is absent, travels the same
\* way or travels the reverse way.
Corners == {<<x, y>> : x \in {0, 10}, y \in {0, 10}}

PathOf(e, p, q) == <<Report(e, p[1], p[2], 0), Report(e, q[1], q[2], 10)>>

CornerPairs == {pq \in Corners \X Corners : pq[1] # pq[2]}

ScenariosGate ==
  UNION {{PathOf("A", pq[1], pq[2]) \o b :
            b \in {<<>>, PathOf("B", pq[1], pq[2]), PathOf("B", pq[2], pq[1])}} :
         pq \in CornerPairs}

Gate(id, xa, ya, xb, yb) == [id |-> id, a |-> <<xa, ya>>, b |-> <<xb, yb>>]

\* Candidate gates: a gate (7), its reverse (8), a diagonal (2), one crossed
\* at a fractional point (9), and three on the x axis: one touching the
\* square at a corner (3), one overlapping its lower edge (4) and one apart
\* from it (6); and a gate whose two endpoints coincide, in the middle of
\* the lower edge (5).
GateCandidates ==
  { Gate(7, 5, -5, 5, 5), Gate(8, 5, 5, 5, -5), Gate(2, 0, -5, 10, 5),
    Gate(9, 0, -5, 3, 5), Gate(3, 10, 0, 20, 0), Gate(4, 5, 0, 20, 0),
    Gate(6, 15, 0, 25, 0), Gate(5, 5, 0, 5, 0) }

\* The lists of at most n distinct gates, in every order.
GateLists(n) ==
  {s \in UNION {[1..k -> GateCandidates] : k \in 0..n} :
     \A i, j \in DOMAIN s : i # j => s[i] # s[j]}

GatesDefault == <<Gate(7, 5, -5, 5, 5)>>

(***************************************************************************)
(* v1: lead() over (partition by mmsi order by t).                         *)
(***************************************************************************)
LeadDefaultX == 0
LeadDefaultY == 0
LeadDefaultT == 0

\* Faulty variant: the window orders by nothing, only the partitioning is left.
WindowOrderNoT(r, s) == EntIdx(r.mmsi) <= EntIdx(s.mmsi)

\* r may stand before s in the sorted window input: rows of one partition are
\* together and ascend in t; rows equal in both may stand either way.
WindowOrder(r, s) ==
  \/ EntIdx(r.mmsi) < EntIdx(s.mmsi)
  \/ EntIdx(r.mmsi) = EntIdx(s.mmsi) /\ r.t <= s.t

Perms(n) == {p \in [1..n -> 1..n] : \A i, j \in 1..n : i # j => p[i] # p[j]}

\* Every order the sort may give to the rows of table t.
SortOrders(t) ==
  {p \in Perms(Len(t)) :
     \A i \in 1..(Len(t) - 1) : WindowOrder(t[p[i]], t[p[i + 1]])}

\* The v1 row of the report at sorted position i.
LeadRow(t, p, i) ==
  LET r == t[p[i]]
      hasNext == i < Len(t) /\ t[p[Min2(i + 1, Len(t))]].mmsi = r.mmsi
      n == t[p[Min2(i + 1, Len(t))]]
  IN [mmsi |-> r.mmsi, x1 |-> r.x, y1 |-> r.y, t1 |-> r.t,
      x2 |-> IF hasNext THEN n.x ELSE LeadDefaultX,
      y2 |-> IF hasNext THEN n.y ELSE LeadDefaultY,
      t2 |-> IF hasNext THEN n.t ELSE LeadDefaultT]

SelectV1(t, p) == [i \in 1..Len(t) |-> LeadRow(t, p, i)]

(***************************************************************************)
(* v2: select *, dx, dy, dt from v1 where t1 < t2.                         *)
(***************************************************************************)
\* Faulty variant: the comparison lets equal timestamps through.
WhereT1LeT2(r) == r.t1 <= r.t2

WhereT1LtT2(r) == r.t1 < r.t2

EnrichV2(r) ==
  [mmsi |-> r.mmsi, x1 |-> r.x1, y1 |-> r.y1, t1 |-> r.t1,
   x2 |-> r.x2, y2 |-> r.y2, t2 |-> r.t2,
   dx |-> r.x2 - r.x1, dy |-> r.y2 - r.y1, dt |-> r.t2 - r.t1]

SelectV2(t) ==
  LET kept == SelectSeq(t, WhereT1LtT2)
  IN [i \in DOMAIN kept |-> EnrichV2(kept[i])]

(***************************************************************************)
(* State machine, first cells.                                             *)
(***************************************************************************)
Init ==
  /\ pc = "v0"
  /\ v1 = <<>> /\ v2 = <<>> /\ v3 = <<>> /\ v4 = <<>>
  /\ df1 = <<>> /\ df2 = <<>> /\ rows = <<>>
  /\ parts = <<>> /\ outs = <<>>
  /\ \/ bv = GatesDefault /\ v0 \in Multisets(ReportsSeg, MaxReports)
     \/ bv = GatesDefault /\ v0 \in Multisets(ReportsNoise, MaxNoiseReports)
     \/ bv \in GateLists(MaxGates) /\ v0 \in ScenariosGate

CellV1 ==
  /\ pc = "v0"
  /\ \E p \in SortOrders(v0) : v1' = SelectV1(v0, p)
  /\ pc' = "v1"
  /\ UNCHANGED <<parts, outs, bv, v0, v2, v3, v4, df1, df2, rows>>

CellV2 ==
  /\ pc = "v1"
  /\ v2' = SelectV2(v1)
  /\ pc' = "v2"
  /\ UNCHANGED <<parts, outs, bv, v0, v1, v3, v4, df1, df2, rows>>

(***************************************************************************)
(* v3: sqrt(dx*dx+dy*dy) dd.   v4: dd/dt mps.                              *)
(* dd is the real number sqrt(rad), kept as its radicand rad; mps is the   *)
(* real number sqrt(rad)/den.                                              *)
(***************************************************************************)
Sqrt(n) == [rad |-> n]

EnrichV3(r) ==
  [mmsi |-> r.mmsi, x1 |-> r.x1, y1 |-> r.y1, x2 |-> r.x2, y2 |-> r.y2,
   dd |-> Sqrt(r.dx * r.dx + r.dy * r.dy), dt |-> r.dt]

SelectV3(t) == [i \in DOMAIN t |-> EnrichV3(t[i])]

EnrichV4(r) ==
  [mmsi |-> r.mmsi, x1 |-> r.x1, y1 |-> r.y1, x2 |-> r.x2, y2 |-> r.y2,
   dd |-> r.dd, dt |-> r.dt, mps |-> [rad |-> r.dd.rad, den |-> r.dt]]

SelectV4(t) == [i \in DOMAIN t |-> EnrichV4(t[i])]

(***************************************************************************)
(* df1: where dd between 1 and 1500 and mps < 25 and dt < 130.             *)
(***************************************************************************)
MinDD == 1
MaxDD == 1500
MaxMps == 25
MaxDt == 130

\* sqrt(rad) between lo and hi, both inclusive (0 <= lo <= hi).
DDBetween(dd, lo, hi) == lo * lo <= dd.rad /\ dd.rad <= hi * hi

\* sqrt(rad)/den < k, for den > 0 and k >= 0.
MpsLess(mps, k) == mps.rad < k * k * mps.den * mps.den

\* Faulty variant: the bound on dt is taken inclusive.
WhereNoiseDtLe(r) ==
  /\ DDBetween(r.dd, MinDD, MaxDD)
  /\ MpsLess(r.mps, MaxMps)
  /\ r.dt <= MaxDt

WhereNoise(r) ==
  /\ DDBetween(r.dd, MinDD, MaxDD)
  /\ MpsLess(r.mps, MaxMps)
  /\ r.dt < MaxDt

ProjectDf1(r) == [x1 |-> r.x1, y1 |-> r.y1, x2 |-> r.x2, y2 |-> r.y2]

SelectDf1(t) ==
  LET kept == SelectSeq(t, WhereNoise)
  IN [i \in DOMAIN kept |-> ProjectDf1(kept[i])]

CellV3 ==
  /\ pc = "v2"
  /\ v3' = SelectV3(v2)
  /\ pc' = "v3"
  /\ UNCHANGED <<parts, outs, bv, v0, v1, v2, v4, df1, df2, rows>>

CellV4 ==
  /\ pc = "v3"
  /\ v4' = SelectV4(v3)
  /\ pc' = "v4"
  /\ UNCHANGED <<parts, outs, bv, v0, v1, v2, v3, df1, df2, rows>>

CellDf1 ==
  /\ pc = "v4"
  /\ df1' = SelectDf1(v4)
  /\ pc' = "df1"
  /\ UNCHANGED <<parts, outs, bv, v0, v1, v2, v3, v4, df2, rows>>

(***************************************************************************)
(* func: the join of a partition of micropaths with the broadcast gates.   *)
(***************************************************************************)
\* A coordinate of an intersection point: the fraction n/d in lowest terms.
Frac(n, d) ==
  LET g == GCD(Abs(n), Abs(d))
      sgn == IF d < 0 THEN -1 ELSE 1
  IN [num |-> sgn * (n \div g), den |-> sgn * (d \div g)]

\* Twice the signed area of the triangle a, b, c.
Orient(a, b, c) == (b[1] - a[1]) * (c[2] - a[2]) - (b[2] - a[2]) * (c[1] - a[1])

\* c lies on the closed segment from a to b.
OnSegment(a, b, c) ==
  /\ Orient(a, b, c) = 0
  /\ Min2(a[1], b[1]) <= c[1] /\ c[1] <= Max2(a[1], b[1])
  /\ Min2(a[2], b[2]) <= c[2] /\ c[2] <= Max2(a[2], b[2])

\* The intersection of two 2-point lines as point sets: empty, a Point (with
\* its coordinates) or a LineString (the lines overlap along a length).
IntersectionOfLines(geom, path) ==
  LET g1 == geom[1]
      g2 == geom[2]
      p1 == path[1]
      p2 == path[2]
      proper ==
        /\ Orient(g1, g2, p1) * Orient(g1, g2, p2) < 0
        /\ Orient(p1, p2, g1) * Orient(p1, p2, g2) < 0
      common ==
        {q \in {g1, g2, p1, p2} : OnSegment(g1, g2, q) /\ OnSegment(p1, p2, q)}
      px == p2[1] - p1[1]
      py == p2[2] - p1[2]
      gx == g2[1] - g1[1]
      gy == g2[2] - g1[2]
      den == px * gy - py * gx
      num == (g1[1] - p1[1]) * gy - (g1[2] - p1[2]) * gx
  IN IF Cardinality(common) >= 2 THEN [kind |-> "LineString"]
     ELSE IF common # {}
       THEN LET q == CHOOSE c \in common : TRUE
            IN [kind |-> "Point", x |-> Frac(q[1], 1), y |-> Frac(q[2], 1)]
     ELSE IF proper
       THEN [kind |-> "Point",
             x |-> Frac(p1[1] * den + num * px, den),
             y |-> Frac(p1[2] * den + num * py, den)]
     ELSE [kind |-> "Empty"]

\* Faulty variant: a line whose two points coincide is taken as its point.
IntersectionKeepsCollapsed(geom, path) == IntersectionOfLines(geom, path)

\* gate_geom.intersection(path) of two 2-point LineStrings.  The overlay
\* drops a line that collapses to a point (fewer than two distinct points)
\* before it intersects, so the intersection with such a line is empty.
Intersection(geom, path) ==
  IF geom[1] = geom[2] \/ path[1] = path[2]
  THEN [kind |-> "Empty"]
  ELSE IntersectionOfLines(geom, path)

\* Faulty variant: vy is taken from the wrong coordinate of the head.
name_geom_vy_typo(g) ==
  [gate_id |-> g.id, geom |-> <<g.a, g.b>>,
   vx |-> g.b[1] - g.a[1], vy |-> g.b[2] - g.a[1]]

\* name_geom: gate id, geometry and the vector from its first to its last point.
name_geom(g) ==
  [gate_id |-> g.id, geom |-> <<g.a, g.b>>,
   vx |-> g.b[1] - g.a[1], vy |-> g.b[2] - g.a[2]]

\* Faulty variant: the test on the cross product is turned around.
lr_rl_flipped(cross) == IF cross > 0 THEN "RL" ELSE "LR"

lr_rl(cross) == IF cross < 0 THEN "RL" ELSE "LR"

\* One pass of the inner loop: what micropath m yields at gate g.  Reading
\* point.x of an intersection that is a LineString raises AttributeError.
Yield(m, g) ==
  LET px == m.x2 - m.x1
      py == m.y2 - m.y1
      path == << <<m.x1, m.y1>>, <<m.x2, m.y2>> >>
      point == Intersection(g.geom, path)
      cross == px * g.vy - py * g.vx
  IN IF point.kind = "Empty" THEN [raised |-> FALSE, out |-> <<>>]
     ELSE IF point.kind = "LineString" THEN [raised |-> TRUE, out |-> <<>>]
     ELSE [raised |-> FALSE,
           out |-> <<[gate_x |-> point.x, gate_y |-> point.y,
                      gate_id |-> g.gate_id, travel_dir |-> lr_rl(cross)]>>]

\* Faulty variant: gates is a generator, (name_geom(v) for v in bv.value),
\* which the first micropath of the partition uses up, so that the later
\* micropaths of the partition meet no gate.
func_gates_generator(partition) ==
  LET gates == [j \in DOMAIN bv |-> name_geom(bv[j])]
      first == SubSeq(partition, 1, Min2(1, Len(partition)))
      ys == [i \in DOMAIN first |-> [j \in DOMAIN gates |-> Yield(first[i], gates[j])]]
  IN [raised |-> \E i \in DOMAIN first : \E j \in DOMAIN gates : ys[i][j].raised,
      out |-> FlattenSeq([i \in DOMAIN first |->
                 FlattenSeq([j \in DOMAIN gates |-> ys[i][j].out])])]

\* func(partition): the rows yielded, micropath by micropath and gate by
\* gate, or the exception raised on the way.
func(partition) ==
  LET gates == [j \in DOMAIN bv |-> name_geom(bv[j])]
      ys == [i \in DOMAIN partition |-> [j \in DOMAIN gates |-> Yield(partition[i], gates[j])]]
  IN [raised |-> \E i \in DOMAIN partition : \E j \in DOMAIN gates : ys[i][j].raised,
      out |-> FlattenSeq([i \in DOMAIN partition |->
                 FlattenSeq([j \in DOMAIN gates |-> ys[i][j].out])])]

(***************************************************************************)
(* rows: select gate_id, travel_dir, count(1) cnt from v5                  *)
(*       group by gate_id, travel_dir order by gate_id, travel_dir.        *)
(***************************************************************************)
\* The place of a travel direction in the order of strings: "LR" < "RL".
DirRank(d) == IF d = "LR" THEN 0 ELSE 1

\* Faulty variant: gate_id is ordered descending.
OrderByGateDesc(k1, k2) ==
  \/ k1[1] > k2[1]
  \/ k1[1] = k2[1] /\ DirRank(k1[2]) <= DirRank(k2[2])

\* order by gate_id, travel_dir: key k1 does not come after key k2.
OrderBy(k1, k2) ==
  \/ k1[1] < k2[1]
  \/ k1[1] = k2[1] /\ DirRank(k1[2]) <= DirRank(k2[2])

RECURSIVE SortKeys(_)
SortKeys(S) ==
  IF S = {} THEN <<>>
  ELSE LET k == CHOOSE a \in S : \A b \in S : OrderBy(a, b)
       IN <<k>> \o SortKeys(S \ {k})

\* Faulty variant: count(distinct *) instead of count(1).
CountDistinct(t, k) ==
  Cardinality({t[i] : i \in {j \in DOMAIN t : <<t[j].gate_id, t[j].travel_dir>> = k}})

\* count(1) of the group with key k.
Count1(t, k) ==
  Cardinality({i \in DOMAIN t : <<t[i].gate_id, t[i].travel_dir>> = k})

SelectStats(t) ==
  LET keys == SortKeys({<<t[i].gate_id, t[i].travel_dir>> : i \in DOMAIN t})
  IN [n \in DOMAIN keys |->
        [gate_id |-> keys[n][1], travel_dir |-> keys[n][2], cnt |-> Count1(t, keys[n])]]

\* df2 = df1.rdd.mapPartitions(func).toDF(...): an exception in func fails
\* the job and no table is made.
CellDf2 ==
  /\ pc = "df1"
  /\ LET r == func(df1)
     IN IF r.raised
        THEN pc' = "failed" /\ df2' = <<>>
        ELSE pc' = "df2" /\ df2' = r.out
  /\ UNCHANGED <<parts, outs, bv, v0, v1, v2, v3, v4, df1, rows>>

CellStats ==
  /\ pc = "df2"
  /\ rows' = SelectStats(df2)
  /\ pc' = "done"
  /\ UNCHANGED <<parts, outs, bv, v0, v1, v2, v3, v4, df1, df2>>

Next == CellV1 \/ CellV2 \/ CellV3 \/ CellV4 \/ CellDf1 \/ CellDf2 \/ CellStats

Spec == Init /\ [][Next]_vars

(***************************************************************************)
(* df1.rdd.mapPartitions(func) with the partitions of the RDD made          *)
(* explicit: one task per partition calls func on the rows of its          *)
(* partition and reads the broadcast gates; tasks finish in any order.     *)
(***************************************************************************)
MaxPartitions == 2

\* The gates of the partitioned runs: a crossed gate (7), a diagonal (2),
\* the gate overlapping the lower edge (4) and the zero-length gate (5).
GateIdsPar == {7, 2, 4, 5}

\* The rows of table t that the assignment a sends to partition k, in the
\* order of t.
PartitionRows(t, a, k) ==
  LET InK(i) == a[i] = k
      idx == SelectSeq([i \in DOMAIN t |-> i], InK)
  IN [j \in DOMAIN idx |-> t[idx[j]]]

\* The output table: the rows of the tasks, in the order of the partitions.
CollectPartitions(o) == FlattenSeq([k \in DOMAIN o |-> o[k].out])

InitPar ==
  /\ pc = "v0"
  /\ v1 = <<>> /\ v2 = <<>> /\ v3 = <<>> /\ v4 = <<>>
  /\ df1 = <<>> /\ df2 = <<>> /\ rows = <<>>
  /\ parts = <<>> /\ outs = <<>>
  /\ bv \in {s \in GateLists(MaxGates) : \A i \in DOMAIN s : s[i].id \in GateIdsPar}
  /\ v0 \in ScenariosGate

\* df1.rdd: the rows of df1 in n partitions, any row in any partition.
Rdd ==
  /\ pc = "df1"
  /\ \E n \in 1..MaxPartitions :
       \E a \in [DOMAIN df1 -> 1..n] :
         /\ parts' = [k \in 1..n |-> PartitionRows(df1, a, k)]
         /\ outs' = [k \in 1..n |-> [done |-> FALSE, out |-> <<>>]]
  /\ pc' = "tasks"
  /\ UNCHANGED <<bv, v0, v1, v2, v3, v4, df1, df2, rows>>

\* One task runs func over its partition; an exception fails the job.
RunTask ==
  /\ pc = "tasks"
  /\ \E k \in DOMAIN parts :
       /\ ~outs[k].done
       /\ LET r == func(parts[k])
          IN IF r.raised
             THEN pc' = "failed" /\ outs' = outs
             ELSE pc' = pc /\ outs' = [outs EXCEPT ![k] = [done |-> TRUE, out |-> r.out]]
  /\ UNCHANGED <<parts, bv, v0, v1, v2, v3, v4, df1, df2, rows>>

\* toDF(...): every task has finished and the table is made.
ToDF ==
  /\ pc = "tasks"
  /\ \A k \in DOMAIN outs : outs[k].done
  /\ df2' = CollectPartitions(outs)
  /\ pc' = "df2"
  /\ UNCHANGED <<parts, outs, bv, v0, v1, v2, v3, v4, df1, rows>>

NextPar ==
  CellV1 \/ CellV2 \/ CellV3 \/ CellV4 \/ CellDf1 \/ Rdd \/ RunTask \/ ToDF \/ CellStats

SpecPar == InitPar /\ [][NextPar]_vars

(***************************************************************************)
(* The binning notebook: v0 holds points (x, y) and rows the bins          *)
(*   with t as (select cast(x/cell0 as long) q, cast(y/cell0 as long) r    *)
(*              from v0)                                                   *)
(*   select q*cell0+cell1 x, r*cell0+cell1 y, least(count(1),400) as pop   *)
(*   from t group by q, r.                                                 *)
(***************************************************************************)
MaxPoints == 2

cell0 == 200
cell1 == cell0 \div 2
PopCap == 400

\* Coordinates on both sides of zero, on cell borders and inside cells.
PointsBin ==
  {[x |-> x, y |-> y] : x \in {-250, -200, -50, 0, 150, 200}, y \in {-50, 50, 250}}

\* cast(n/d as long) for d > 0: the quotient with its fraction cut off,
\* towards zero for either sign of n.
CastLong(n, d) == IF n >= 0 THEN n \div d ELSE -((-n) \div d)

\* The row of t: the cell location (q, r) of point p.
CellOf(p) == <<CastLong(p.x, cell0), CastLong(p.y, cell0)>>

\* least(count(1), 400) of the group with key k.
Pop(t, k) == Min2(Cardinality({i \in DOMAIN t : CellOf(t[i]) = k}), PopCap)

\* The output row of the group with key k.
BinRow(t, k) ==
  [x |-> k[1] * cell0 + cell1, y |-> k[2] * cell0 + cell1, pop |-> Pop(t, k)]

\* The result of the query: one row per group, in any order.
SelectBins(t) ==
  LET keys == {CellOf(t[i]) : i \in DOMAIN t}
      n == Cardinality(keys)
  IN {s \in [1..n -> {BinRow(t, k) : k \in keys}] :
        \A i, j \in 1..n : i # j => s[i] # s[j]}

InitBin ==
  /\ pc = "bin_v0"
  /\ bv = <<>> /\ v1 = <<>> /\ v2 = <<>> /\ v3 = <<>> /\ v4 = <<>>
  /\ df1 = <<>> /\ df2 = <<>> /\ rows = <<>>
  /\ parts = <<>> /\ outs = <<>>
  /\ v0 \in UNION {[1..n -> PointsBin] : n \in 0..MaxPoints}

CellBins ==
  /\ pc = "bin_v0"
  /\ rows' \in SelectBins(v0)
  /\ pc' = "bin_rows"
  /\ UNCHANGED <<parts, outs, bv, v0, v1, v2, v3, v4, df1, df2>>

NextBin == CellBins

SpecBin == InitBin /\ [][NextBin]_vars

(***************************************************************************)
(* Properties of the segmentation (v1, v2).                                *)
(***************************************************************************)
\* The v2 cell has just run: v0, v1 and v2 do not change afterwards.
Segmented == pc = "v2"

ReportsOf(e) == {i \in DOMAIN v0 : v0[i].mmsi = e}

MicropathsOf(e) == {k \in DOMAIN v2 : v2[k].mmsi = e}

TimesOf(e) == {v0[i].t : i \in ReportsOf(e)}

\* Two reports of one entity with one timestamp.
SharedTimestamp(i, j) == i # j /\ v0[i].mmsi = v0[j].mmsi /\ v0[i].t = v0[j].t

\* C1: every micropath emitted by the segmentation (v2) has t1 < t2 strictly
\* and a dt > 0, also when an entity has reports with the same timestamp.
C1_T1BeforeT2 == \A k \in DOMAIN v2 : v2[k].t1 < v2[k].t2 /\ v2[k].dt > 0

\* C1 witness: an entity with two reports of one timestamp, whose pair the
\* window formed (a v1 row with t1 = t2), has a micropath emitted.
C1_Witness ==
  /\ pc = "v2"
  /\ \E i, j \in DOMAIN v0 :
       /\ SharedTimestamp(i, j)
       /\ MicropathsOf(v0[i].mmsi) # {}
       /\ \E k \in DOMAIN v1 : v1[k].mmsi = v0[i].mmsi /\ v1[k].t1 = v1[k].t2

\* No report has a negative timestamp: the default t2 = 0 of lead() is then
\* never later than the last report of a partition.
NonNegativeTimes == \A i \in DOMAIN v0 : v0[i].t >= 0

\* C2, as claimed: an entity with n >= 1 reports has exactly n-1 micropaths
\* in v2 (taken on reports with timestamps >= 0, which the defect of C3
\* does not touch).
C2_ExactlyNMinus1 ==
  (Segmented /\ NonNegativeTimes) =>
    \A e \in Range(Entities) :
      ReportsOf(e) # {} => Cardinality(MicropathsOf(e)) = Cardinality(ReportsOf(e)) - 1

\* C2, amended: an entity with n >= 1 reports has as many micropaths in v2
\* as it has distinct timestamps, less one, and one more when its latest
\* timestamp is negative (the last report is then paired with the lead()
\* default, whose t2 is 0).
C2_DistinctTimesMinus1 ==
  Segmented =>
    \A e \in Range(Entities) :
      ReportsOf(e) # {} =>
        Cardinality(MicropathsOf(e)) =
          Cardinality(TimesOf(e)) - 1
            + (IF \A t \in TimesOf(e) : t < 0 THEN 1 ELSE 0)

\* C2 witness: three reports of one entity, two of them with one timestamp,
\* give one micropath.
C2_Witness ==
  /\ pc = "v2"
  /\ \E e \in Range(Entities) :
       /\ Cardinality(ReportsOf(e)) = 3
       /\ Cardinality(TimesOf(e)) = 2
       /\ Cardinality(MicropathsOf(e)) = 1

\* C3: both endpoints of every micropath in v2 are reports of its entity;
\* the defaults lead() gives the last report are never an endpoint B.
C3_EndpointsAreReports ==
  \A k \in DOMAIN v2 :
    /\ \E i \in ReportsOf(v2[k].mmsi) :
         v0[i].x = v2[k].x1 /\ v0[i].y = v2[k].y1 /\ v0[i].t = v2[k].t1
    /\ \E j \in ReportsOf(v2[k].mmsi) :
         v0[j].x = v2[k].x2 /\ v0[j].y = v2[k].y2 /\ v0[j].t = v2[k].t2

\* The set of micropaths the segmentation yields under sort order p.
MicropathSet(p) == Range(SelectV2(SelectV1(v0, p)))

\* C4, as claimed: whatever order the sort gives to reports that share a
\* timestamp, the segmentation yields the same set of micropaths (taken on
\* reports with timestamps >= 0, which the defect of C3 does not touch).
C4_SameSetForEveryOrder ==
  (Segmented /\ NonNegativeTimes) =>
    LET emitted == Range(v2)
    IN \A p \in SortOrders(v0) : MicropathSet(p) = emitted

\* No two reports of one entity share a timestamp and differ in position.
NoPositionTies ==
  \A i, j \in DOMAIN v0 :
    SharedTimestamp(i, j) => v0[i].x = v0[j].x /\ v0[i].y = v0[j].y

\* C4, amended: when no two reports of one entity share a timestamp and
\* differ in position, the segmentation yields the same set of micropaths
\* for every order of the sort.
C4_SameSetWithoutPositionTies ==
  (Segmented /\ NoPositionTies) =>
    LET emitted == Range(v2)
    IN \A p \in SortOrders(v0) : MicropathSet(p) = emitted

\* C4 witness: the sort has more than one order to choose from (two equal
\* reports) and micropaths were emitted.
C4_Witness ==
  /\ pc = "v2"
  /\ NoPositionTies
  /\ Cardinality(SortOrders(v0)) > 1
  /\ v2 # <<>>

(***************************************************************************)
(* Properties of the noise filter (df1).                                   *)
(***************************************************************************)
\* The df1 cell has just run: v2 and df1 do not change afterwards.
Filtered == pc = "df1"

\* The three conditions, on the endpoints of a micropath: distance^2 is
\* dx^2 + dy^2, and distance/dt < 25 is distance^2 < (25*dt)^2 as dt > 0.
PassesNoise(m) ==
  LET dx == m.x2 - m.x1
      dy == m.y2 - m.y1
      dt == m.t2 - m.t1
      dist2 == dx * dx + dy * dy
  IN /\ 1 <= dist2 /\ dist2 <= 1500 * 1500
     /\ dist2 < (25 * dt) * (25 * dt)
     /\ dt < 130

Line(m) == [x1 |-> m.x1, y1 |-> m.y1, x2 |-> m.x2, y2 |-> m.y2]

\* C5: the noise filter outputs exactly the micropaths with
\* 1 <= distance <= 1500, speed < 25 and dt < 130: each line is in df1 as
\* many times as v2 holds a micropath with that line passing all three.
C5_ExactlyThePassing ==
  Filtered =>
    \A l \in Range(df1) \cup {Line(v2[k]) : k \in DOMAIN v2} :
      Cardinality({i \in DOMAIN df1 : df1[i] = l}) =
        Cardinality({k \in DOMAIN v2 : Line(v2[k]) = l /\ PassesNoise(v2[k])})

\* C5 witness: reports (0,0,t=0), (10,0,t=10), (20,0,t=1000) of one entity
\* leave exactly the segment (0,0)->(10,0).
C5_Witness ==
  /\ pc = "df1"
  /\ v0 = <<Report("A", 0, 0, 0), Report("A", 10, 0, 10), Report("A", 20, 0, 1000)>>
  /\ Len(v2) = 2
  /\ df1 = <<[x1 |-> 0, y1 |-> 0, x2 |-> 10, y2 |-> 0]>>

(***************************************************************************)
(* Properties of the gate join (df2).                                      *)
(***************************************************************************)
\* The df2 cell has just run and func raised nothing: bv, df1 and df2 do
\* not change afterwards.
Detected == pc = "df2"

PathOfLine(l) == << <<l.x1, l.y1>>, <<l.x2, l.y2>> >>

\* Micropath i of df1 and gate j of the broadcast list intersect.
Intersect(i, j) == Intersection(<<bv[j].a, bv[j].b>>, PathOfLine(df1[i])).kind # "Empty"

\* The intersecting (micropath, gate) pairs in the order func visits them:
\* the k-th row func yields comes from the k-th of them.
IntersectingPairs ==
  FlattenSeq([i \in DOMAIN df1 |->
    FlattenSeq([j \in DOMAIN bv |-> IF Intersect(i, j) THEN << <<i, j>> >> ELSE <<>>])])

\* cross = px*gy - py*gx of micropath i and gate j, from their endpoints.
CrossOf(i, j) ==
  (df1[i].x2 - df1[i].x1) * (bv[j].b[2] - bv[j].a[2])
    - (df1[i].y2 - df1[i].y1) * (bv[j].b[1] - bv[j].a[1])

\* C6: the travel direction reported for a micropath that intersects a gate
\* is "RL" exactly when cross = px*gy - py*gx is < 0 and "LR" otherwise,
\* cross = 0 included.
C6_DirectionBySignOfCross ==
  Detected =>
    LET pairs == IntersectingPairs
    IN \A k \in DOMAIN df2 :
      /\ k \in DOMAIN pairs
      /\ LET i == pairs[k][1]
             j == pairs[k][2]
         IN /\ df2[k].gate_id = bv[j].id
            /\ (df2[k].travel_dir = "RL") <=> (CrossOf(i, j) < 0)
            /\ (df2[k].travel_dir = "LR") <=> (CrossOf(i, j) >= 0)

\* C6 witness: gate (5,-5)->(5,5) with segment (0,0)->(10,0) gives "LR" and
\* with segment (10,0)->(0,0) gives "RL", both at the point (5,0).
C6_Witness ==
  /\ pc = "df2"
  /\ bv = <<Gate(7, 5, -5, 5, 5)>>
  /\ df1 = <<[x1 |-> 0, y1 |-> 0, x2 |-> 10, y2 |-> 0],
             [x1 |-> 10, y1 |-> 0, x2 |-> 0, y2 |-> 0]>>
  /\ df2 = <<[gate_x |-> Frac(5, 1), gate_y |-> Frac(0, 1), gate_id |-> 7, travel_dir |-> "LR"],
             [gate_x |-> Frac(5, 1), gate_y |-> Frac(0, 1), gate_id |-> 7, travel_dir |-> "RL"]>>

\* Rows k1 and k2 are of one gate and of a segment and its reverse.
SegmentReversed(pairs, k1, k2) ==
  LET i1 == pairs[k1][1]
      i2 == pairs[k2][1]
  IN /\ pairs[k1][2] = pairs[k2][2]
     /\ df1[i2].x1 = df1[i1].x2 /\ df1[i2].y1 = df1[i1].y2
     /\ df1[i2].x2 = df1[i1].x1 /\ df1[i2].y2 = df1[i1].y1

\* Rows k1 and k2 are of one segment and of a gate and its reverse.
GateReversed(pairs, k1, k2) ==
  LET j1 == pairs[k1][2]
      j2 == pairs[k2][2]
  IN /\ pairs[k1][1] = pairs[k2][1]
     /\ bv[j2].a = bv[j1].b /\ bv[j2].b = bv[j1].a

CrossOfRow(pairs, k) == CrossOf(pairs[k][1], pairs[k][2])

\* C7, as claimed: reversing the segment flips the reported direction for
\* the gate, and reversing the gate flips it for the segment.
C7_ReversalFlips ==
  Detected =>
    LET pairs == IntersectingPairs
    IN Len(df2) = Len(pairs) =>
         \A k1, k2 \in DOMAIN df2 :
           (SegmentReversed(pairs, k1, k2) \/ GateReversed(pairs, k1, k2)) =>
             df2[k1].travel_dir # df2[k2].travel_dir

\* C7, amended: when cross = px*gy - py*gx is not 0 (segment and gate are
\* not parallel), reversing the segment flips the reported direction for
\* the gate, and reversing the gate flips it for the segment.
C7_ReversalFlipsUnlessParallel ==
  Detected =>
    LET pairs == IntersectingPairs
    IN Len(df2) = Len(pairs) =>
         \A k1, k2 \in DOMAIN df2 :
           ((SegmentReversed(pairs, k1, k2) \/ GateReversed(pairs, k1, k2))
              /\ CrossOfRow(pairs, k1) # 0) =>
             df2[k1].travel_dir # df2[k2].travel_dir

\* C7 witness: a segment and its reverse were reported at one gate, and one
\* segment at a gate and at its reverse, none of them parallel.
C7_Witness ==
  /\ pc = "df2"
  /\ LET pairs == IntersectingPairs
     IN /\ Len(df2) = Len(pairs)
        /\ \E k1, k2 \in DOMAIN df2 :
             SegmentReversed(pairs, k1, k2) /\ CrossOfRow(pairs, k1) # 0
        /\ \E k1, k2 \in DOMAIN df2 :
             GateReversed(pairs, k1, k2) /\ CrossOfRow(pairs, k1) # 0

\* C8: when the detector has run, every gate has as many crossings in df2 as
\* there are micropaths in df1 that intersect it (one per intersecting pair,
\* none for a pair that does not intersect), and df2 holds nothing else.
C8_OneCrossingPerIntersectingPair ==
  pc \in {"df2", "failed"} =>
    /\ \A j \in DOMAIN bv :
         Cardinality({k \in DOMAIN df2 : df2[k].gate_id = bv[j].id}) =
           Cardinality({i \in DOMAIN df1 : Intersect(i, j)})
    /\ \A k \in DOMAIN df2 : \E j \in DOMAIN bv : df2[k].gate_id = bv[j].id

(***************************************************************************)
(* Properties of the statistics (rows).                                    *)
(***************************************************************************)
\* C9: the counts of the CrossingCount rows add up to the number of
\* crossings the detector produced.
C9_CountsAddUp ==
  pc = "done" => SumSeq([n \in DOMAIN rows |-> rows[n].cnt]) = Len(df2)

\* C9 witness: several crossings, two of them counted in one row.
C9_Witness ==
  /\ pc = "done"
  /\ Len(df2) >= 3
  /\ \E n \in DOMAIN rows : rows[n].cnt = 2

CrossingsWith(g, d) == {k \in DOMAIN df2 : df2[k].gate_id = g /\ df2[k].travel_dir = d}

\* C10: rows has exactly one row for each (gate_id, travel_dir) that occurs
\* among the crossings, its cnt the number of crossings with that key, no
\* row for a key that does not occur, and the rows ascend in gate_id and,
\* for one gate_id, in travel_dir ("LR" before "RL").
C10_OneSortedRowPerKey ==
  pc = "done" =>
    /\ \A k \in DOMAIN df2 :
         Cardinality({n \in DOMAIN rows :
           rows[n].gate_id = df2[k].gate_id /\ rows[n].travel_dir = df2[k].travel_dir}) = 1
    /\ \A n \in DOMAIN rows :
         /\ rows[n].cnt = Cardinality(CrossingsWith(rows[n].gate_id, rows[n].travel_dir))
         /\ rows[n].cnt >= 1
    /\ \A n, o \in DOMAIN rows :
         n < o =>
           \/ rows[n].gate_id < rows[o].gate_id
           \/ /\ rows[n].gate_id = rows[o].gate_id
              /\ rows[n].travel_dir = "LR" /\ rows[o].travel_dir = "RL"

\* C10 witness: one "RL" and then one "LR" crossing at gate 7 give exactly
\* (7,"LR",1), (7,"RL",1) in that order.
C10_Witness ==
  /\ pc = "done"
  /\ Len(df2) = 2
  /\ df2[1].travel_dir = "RL" /\ df2[2].travel_dir = "LR"
  /\ rows = <<[gate_id |-> 7, travel_dir |-> "LR", cnt |-> 1],
              [gate_id |-> 7, travel_dir |-> "RL", cnt |-> 1]>>

(***************************************************************************)
(* Properties of degenerate gates.                                         *)
(***************************************************************************)
ZeroLength(g) == g.a = g.b

KeptRows == SelectSeq(v4, WhereNoise)

\* The three conditions as the claim words them, on the columns of a row:
\* dd = sqrt(dd.rad) in [1, 1500], mps = sqrt(mps.rad)/mps.den < 25 and
\* dt < 130.
DistanceSpeedDtOK(r) ==
  /\ 1 <= r.dd.rad /\ r.dd.rad <= 1500 * 1500
  /\ r.mps.rad < 25 * 25 * r.mps.den * r.mps.den
  /\ r.dt < 130

\* C12: filtering the already-filtered micropaths by distance in [1, 1500],
\* speed < 25 and dt < 130 returns them unchanged, row for row, and their
\* lines are the table df1.
C12_FilterTwiceIsFilterOnce ==
  Filtered =>
    /\ SelectSeq(KeptRows, DistanceSpeedDtOK) = KeptRows
    /\ SelectSeq(KeptRows, WhereNoise) = KeptRows
    /\ [i \in DOMAIN KeptRows |-> ProjectDf1(KeptRows[i])] = df1

\* C12 witness: the filter has kept a micropath and dropped another one, and
\* the second pass drops nothing.
C12_Witness ==
  /\ pc = "df1"
  /\ df1 # <<>>
  /\ Len(df1) < Len(v4)
  /\ Len(SelectSeq(KeptRows, WhereNoise)) = Len(df1)


(***************************************************************************)
(* The join over partitions.                                               *)
(***************************************************************************)
\* Tables s and t hold the same rows the same number of times.
SameRows(s, t) ==
  \A x \in Range(s) \cup Range(t) :
    Cardinality({i \in DOMAIN s : s[i] = x}) = Cardinality({i \in DOMAIN t : t[i] = x})

\* func over all of df1 as one partition.
OnePartition == func(df1)

\* C13: for every split of df1 into partitions and every order in which the
\* tasks finish, the crossings of df2 are, as a multiset, those of func over
\* df1 as one partition, and the counts are those of that run; the job
\* fails exactly when that run raises; and no step changes the gates bv.
C13_SameCrossingsForEverySplit ==
  /\ [](/\ pc = "df2" => ~OnePartition.raised /\ SameRows(df2, OnePartition.out)
        /\ pc = "done" => rows = SelectStats(OnePartition.out)
        /\ pc = "failed" => OnePartition.raised)
  /\ [][bv' = bv]_vars

\* C13 witness: two micropaths in two partitions, each task has emitted a
\* crossing, and the second micropath of df1 sits in the first partition, so
\* that df2 lists the crossings in another order than the one-partition run.
C13_Witness ==
  /\ pc = "df2"
  /\ Len(parts) = 2
  /\ Len(parts[1]) = 1 /\ Len(parts[2]) = 1
  /\ outs[1].out # <<>> /\ outs[2].out # <<>>
  /\ df2 # OnePartition.out


(***************************************************************************)
(* Micropaths and the reports they connect.                                *)
(***************************************************************************)
\* No report of the entity of micropath m lies strictly between its times.
NoReportBetween(m) ==
  \A i \in ReportsOf(m.mmsi) : ~(m.t1 < v0[i].t /\ v0[i].t < m.t2)

\* Report i is the endpoint (x, y, t) of a micropath of entity e.
IsEndpoint(i, e, x, y, t) ==
  v0[i].mmsi = e /\ v0[i].x = x /\ v0[i].y = y /\ v0[i].t = t

\* C14: every micropath of v2 connects two temporally adjacent reports of
\* its entity: its endpoints are two different reports of that entity, with
\* t1 < t2, and no report of the entity has a timestamp strictly between.
C14_ConnectsAdjacentReports ==
  Segmented =>
    \A k \in DOMAIN v2 :
      /\ v2[k].t1 < v2[k].t2
      /\ NoReportBetween(v2[k])
      /\ \E i, j \in DOMAIN v0 :
           /\ i # j
           /\ IsEndpoint(i, v2[k].mmsi, v2[k].x1, v2[k].y1, v2[k].t1)
           /\ IsEndpoint(j, v2[k].mmsi, v2[k].x2, v2[k].y2, v2[k].t2)

\* The part of C14 on timestamps alone.
C14_NoReportBetweenAlone ==
  Segmented => \A k \in DOMAIN v2 : NoReportBetween(v2[k])


(***************************************************************************)
(* Properties of the bins.                                                 *)
(***************************************************************************)
Binned == pc = "bin_rows"

\* The rows whose 200x200 cell, centre +- 100 on each axis, holds point p.
RowsHolding(p) ==
  {k \in DOMAIN rows : Abs(p.x - rows[k].x) <= cell1 /\ Abs(p.y - rows[k].y) <= cell1}

\* The row of the bin (q, r) that the query puts point p in.
RowsOfBin(p) ==
  {k \in DOMAIN rows : /\ rows[k].x = CellOf(p)[1] * 200 + 100
                       /\ rows[k].y = CellOf(p)[2] * 200 + 100}

\* Every point is in one bin and every bin counts its points.
C15_CountedOnceAlone ==
  Binned =>
    /\ \A i \in DOMAIN v0 : Cardinality(RowsOfBin(v0[i])) = 1
    /\ \A k \in DOMAIN rows :
         rows[k].pop = Cardinality({i \in DOMAIN v0 : k \in RowsOfBin(v0[i])})
    /\ SumSeq([k \in DOMAIN rows |-> rows[k].pop]) = Len(v0)

\* C15: every point of v0 is counted in exactly one bin, and the row of that
\* bin has the centre of the 200x200 cell holding the point:
\* |x - centre_x| <= 100 and |y - centre_y| <= 100, for either sign of x, y.
C15_PointInItsBin ==
  /\ C15_CountedOnceAlone
  /\ Binned => \A i \in DOMAIN v0 : RowsOfBin(v0[i]) \subseteq RowsHolding(v0[i])

====
